---- MODULE Spec2Model ----
(***************************************************************************)
(* Model of src/sim_moist_central.py: the rolling-window Sensor, the       *)
(* getMaxMinReport response builder, the command / property listeners,     *)
(* the telemetry loop and main's quit sequence.                            *)
(*                                                                         *)
(* Four specifications share the variables:                                *)
(*   SpecSensor  one Sensor of any capacity, driven by record calls        *)
(*   SpecNonFinite  the same, with non-finite readings among the calls     *)
(*   SpecReport  create_max_min_report_response applied to any name        *)
(*   Spec        main(): listeners, telemetry task, quit and shutdown      *)
(***************************************************************************)
EXTENDS Integers, Sequences, FiniteSets, TLC

VARIABLES
    SENSOR_1,      \* module global SENSOR_1: None or a Sensor object
    SENSOR_2,      \* module global SENSOR_2: None or a Sensor object
    hist1,         \* ghost of SpecSensor: the readings passed to record, in order
    lastCall,      \* ghost of the unit specifications: the last call made
    mainPc,        \* position of main()
    listeners,     \* the gather future of the four listeners
    lst,           \* per listener task: its position and request in hand
    tel,           \* the telemetry task: position and events handed over
    afterQuit      \* ghost: what was sent to the transport after the quit

vars == <<SENSOR_1, SENSOR_2, hist1, lastCall, mainPc, listeners,
          lst, tel, afterQuit>>

---------------------------------------------------------------------------
(* Bounds of the model *)

\* largest moving_win a Sensor is created with in SpecSensor
MaxCap == 11
\* number of record calls explored on one Sensor in SpecSensor
MaxRecords == 11
\* number of record calls explored when non-finite readings are fed
MaxRecordsNF == 4
\* number of record calls explored per sensor in SpecReport
MaxRecordsRep == 2
\* number of telemetry events the telemetry loop sends in Spec
MaxEvents == 3

---------------------------------------------------------------------------
(* Python values *)

\* a finite number n/d (d = 1 for the integers the program reads)
Ratio(n, d) == [kind |-> "num", val |-> n, den |-> d]
Num(n) == Ratio(n, 1)
\* Python's None (what a function returns when no branch returns)
None == [kind |-> "None", val |-> 0, den |-> 1]
\* float('nan'): the distinguished non-finite reading
NaN == [kind |-> "nan", val |-> 0, den |-> 1]

IsNum(x) == x.kind = "num"

\* bool(x): None and 0 are falsy, every other number and NaN are truthy
Truthy(x) == IF x.kind = "None" THEN FALSE
             ELSE IF x.kind = "num" THEN x.val # 0
             ELSE TRUE

\* a > b on floats: any comparison with NaN is False
\* (never evaluated with None: "not self.max" is tested first)
Gt(a, b) == IsNum(a) /\ IsNum(b) /\ a.val * b.den > b.val * a.den
Lt(a, b) == IsNum(a) /\ IsNum(b) /\ a.val * b.den < b.val * a.den

RECURSIVE SumFrom(_, _)
\* sum(self.records): NaN as soon as one element is NaN
SumFrom(recs, i) ==
    IF i > Len(recs) THEN Num(0)
    ELSE LET rest == SumFrom(recs, i + 1)
         IN IF recs[i].kind = "nan" \/ rest.kind = "nan" THEN NaN
            ELSE Num(recs[i].val + rest.val)
PySum(recs) == SumFrom(recs, 1)

\* x / n for an int n > 0
PyDiv(x, n) == IF x.kind = "nan" THEN NaN ELSE Ratio(x.val, n)

---------------------------------------------------------------------------
(* class Sensor *)

\* length of the literal list self.records is set to
RecordsLen == 10

\* Sensor.__init__(name, moving_win)
SensorInit(name, moving_win) ==
    [ name          |-> name,
      moving_window |-> moving_win,
      records       |-> [i \in 1..RecordsLen |-> Num(0)],
      index         |-> 0,
      cur           |-> Num(0),
      max           |-> Num(0),
      min           |-> Num(0),
      avg           |-> Num(0) ]

\* the conventional running maximum, which calculate_max is not
calculate_max_running(self, current_vsm) ==
    IF ~Truthy(self.max) THEN current_vsm
    ELSE IF Gt(current_vsm, self.max) THEN current_vsm
    ELSE self.max

\* Sensor.calculate_max: the first branch, the elif, and the implicit None
calculate_max(self, current_vsm) ==
    IF ~Truthy(self.max) THEN current_vsm
    ELSE IF Gt(current_vsm, self.max) THEN self.max
    ELSE None

\* Sensor.calculate_min
calculate_min(self, current_vsm) ==
    IF ~Truthy(self.min) THEN current_vsm
    ELSE IF Lt(current_vsm, self.min) THEN self.min
    ELSE None

\* Sensor.calculate_average
calculate_average(self) == PyDiv(PySum(self.records), self.moving_window)

\* Sensor.record: the sensor after the call and the exception it raised.
\* self.cur is assigned first; the list store raises IndexError when index
\* is past the end of the ten-element list, and the rest is then skipped.
record(self, current_vsm) ==
    LET s1 == [self EXCEPT !.cur = current_vsm]
    IN IF self.index >= Len(self.records)
       THEN [sensor |-> s1, raised |-> "IndexError"]
       ELSE LET s2 == [s1 EXCEPT !.records[self.index + 1] = current_vsm]
                s3 == [s2 EXCEPT !.max = calculate_max(s2, current_vsm)]
                s4 == [s3 EXCEPT !.min = calculate_min(s3, current_vsm)]
                s5 == [s4 EXCEPT !.avg = calculate_average(s4)]
                s6 == [s5 EXCEPT !.index = (s5.index + 1) % s5.moving_window]
            IN [sensor |-> s6, raised |-> "none"]

\* Sensor.create_report; times are seconds before datetime.now()
create_report(self) ==
    [ maxVMS    |-> self.max,
      minVMS    |-> self.min,
      avgVMS    |-> self.avg,
      startTime |-> self.moving_window * 8,
      endTime   |-> 0 ]

---------------------------------------------------------------------------
(* Strings: sequences of characters, so that "in" is a substring test *)

sensor_1_component_name == <<"s", "e", "n", "s", "o", "r", "1">>
sensor_2_component_name == <<"s", "e", "n", "s", "o", "r", "2">>
\* the literal tested by create_max_min_report_response
SensorLiteral == <<"S", "e", "n", "s", "o", "r", ";", "1">>
\* the method names main registers
GetMaxMinReport == <<"g", "e", "t", "M", "a", "x", "M", "i", "n",
                      "R", "e", "p", "o", "r", "t">>
Reboot == <<"r", "e", "b", "o", "o", "t">>
\* "no string" (component_name=None)
NoName == <<>>

\* Python's  sub in s  on strings
StrIn(sub, s) ==
    \E i \in 0..(Len(s) - Len(sub)) : SubSeq(s, i + 1, i + Len(sub)) = sub

\* truthiness of the globals SENSOR_1 / SENSOR_2: None or an object
NoSensor == [name |-> NoName]
Exists(sensor) == sensor # NoSensor

---------------------------------------------------------------------------
(* Responses to commands *)

\* the else branch of create_max_min_report_response
ZeroReport ==
    [ maxVMS |-> Num(0), minVMS |-> Num(0), avgVMS |-> Num(0),
      startTime |-> 0, endTime |-> 0 ]

\* create_max_min_report_response(sensor_name), reading the two globals
create_max_min_report_response(sensor_name, S1, S2) ==
    IF StrIn(SensorLiteral, sensor_name) /\ Exists(S1) THEN create_report(S1)
    ELSE IF Exists(S2) THEN create_report(S2)
    ELSE ZeroReport

\* payload of the generic response built when no response builder is given
GenericPayload ==
    [ maxVMS |-> None, minVMS |-> None, avgVMS |-> None,
      startTime |-> 0, endTime |-> 0 ]

\* pnp_helper.create_response_payload_with_status: status 200 for a named
\* method; the payload is the response builder's result for the component
\* the request names, or the generic payload when there is no builder
create_response_payload_with_status(component_name, method_name, has_builder, S1, S2) ==
    [ status  |-> IF method_name # NoName THEN 200 ELSE 404,
      payload |-> IF has_builder
                  THEN create_max_min_report_response(component_name, S1, S2)
                  ELSE GenericPayload ]

NoResponse == [status |-> 0, payload |-> GenericPayload]

---------------------------------------------------------------------------
(* State of main() before it runs; the unit specifications keep it fixed *)

\* the coroutines main gathers: three command listeners and the property
\* listener, each with the arguments main passes
Listeners == {"reboot", "report1", "report2", "property"}
CommandListeners == {"reboot", "report1", "report2"}

component_name(l) == IF l = "report1" THEN sensor_1_component_name
                     ELSE IF l = "report2" THEN sensor_2_component_name
                     ELSE NoName
method_name(l) == IF l = "reboot" THEN Reboot ELSE GetMaxMinReport
has_response_handler(l) == l \in {"report1", "report2"}

\* a listener task: where it is suspended, what became of the request in
\* hand, the response built for it, and whether its handler ever raised
TaskInit == [pc |-> "idle", answered |-> "none", response |-> NoResponse,
             handlerFailed |-> FALSE]

MainInit ==
    /\ mainPc = "init"
    /\ listeners = "none"
    /\ lst = [l \in Listeners |-> TaskInit]
    /\ tel = [pc |-> "idle", events |-> <<>>]
    /\ afterQuit = {}

mainVars == <<mainPc, listeners, lst, tel, afterQuit>>

NoCall == [op |-> "none", arg |-> None, raised |-> "none", result |-> NoResponse]

---------------------------------------------------------------------------
(* SpecSensor: one Sensor of capacity 1..MaxCap fed finite readings.       *)
(* SpecNonFinite: the same Sensor fed finite and non-finite readings.      *)

\* two of the values random.randrange(10, 50) draws
Readings == {Num(10), Num(40)}

InitSensor ==
    /\ \E c \in 1..MaxCap : SENSOR_1 = SensorInit(sensor_1_component_name, c)
    /\ SENSOR_2 = NoSensor
    /\ hist1 = <<>>
    /\ lastCall = NoCall
    /\ MainInit

\* one call SENSOR_1.record(v); an exception leaves the call unfinished
RecordCall(v) ==
    LET r == record(SENSOR_1, v)
    IN /\ SENSOR_1' = r.sensor
       /\ hist1' = Append(hist1, v)
       /\ lastCall' = [NoCall EXCEPT !.op = "record", !.arg = v,
                                     !.raised = r.raised]
       /\ UNCHANGED <<SENSOR_2, mainVars>>

RecordFinite ==
    /\ Len(hist1) < MaxRecords
    /\ \E v \in Readings : RecordCall(v)

RecordAny ==
    /\ Len(hist1) < MaxRecordsNF
    /\ \E v \in Readings \cup {NaN} : RecordCall(v)

NextSensor == RecordFinite
SpecSensor == InitSensor /\ [][NextSensor]_vars

NextNonFinite == RecordAny
SpecNonFinite == InitSensor /\ [][NextNonFinite]_vars

---------------------------------------------------------------------------
(* Claims about one Sensor *)

RECURSIVE SumVals(_, _, _)
\* r_i + ... + r_j of a sequence of finite readings
SumVals(h, i, j) == IF i > j THEN 0 ELSE h[i].val + SumVals(h, i + 1, j)

MaxOf(h) == CHOOSE m \in {h[i].val : i \in 1..Len(h)} :
                \A i \in 1..Len(h) : h[i].val <= m
MinOf(h) == CHOOSE m \in {h[i].val : i \in 1..Len(h)} :
                \A i \in 1..Len(h) : h[i].val >= m

\* avg * c = total, for the exact quotient avg
AvgTimesIs(avg, c, total) == IsNum(avg) /\ avg.val * c = total * avg.den

\* C1: after each call of record with finite readings, max is the largest
\* reading ever recorded into the sensor and min the smallest.
C1_MaxMinOfAllReadings ==
    lastCall.op = "record" =>
        /\ SENSOR_1.max = Num(MaxOf(hist1))
        /\ SENSOR_1.min = Num(MinOf(hist1))

\* C2: on a fresh Sensor of capacity C, after exactly C readings avg * C is
\* r1+...+rC, and after one more reading avg * C is r2+...+rC+1.
C2_SlidingWindowAverage ==
    LET c == SENSOR_1.moving_window
        n == Len(hist1)
    IN /\ n = c => AvgTimesIs(SENSOR_1.avg, c, SumVals(hist1, 1, c))
       /\ n = c + 1 => AvgTimesIs(SENSOR_1.avg, c, SumVals(hist1, 2, c + 1))

\* C9: a call of record with a finite reading never fails, whatever the
\* capacity and however many calls came before.
C9_RecordNeverFails ==
    (lastCall.op = "record" /\ IsNum(lastCall.arg)) => lastCall.raised = "none"

\* C10: a call of record with a non-finite reading fails with InvalidReading
\* and leaves records, index, cur, max, min and avg as they were.
C10_NonFiniteRejected ==
    [][(hist1' # hist1 /\ lastCall'.arg = NaN) =>
           (lastCall'.raised = "InvalidReading" /\ SENSOR_1' = SENSOR_1)]_vars

---------------------------------------------------------------------------
(* SpecReport: the response to getMaxMinReport for any sensor name, in     *)
(* every state of the two globals.                                         *)

\* the window capacity main creates both sensors with
MainWindow == 10

\* a sensor name no Sensor has
sensor_3_name == <<"s", "e", "n", "s", "o", "r", "3">>
\* a name that holds the literal the response builder tests
thermostat_style_name == <<"d", "t", "m", "i", ":">> \o SensorLiteral

SensorNames == {sensor_1_component_name, sensor_2_component_name,
                sensor_3_name, thermostat_style_name}

InitReport ==
    /\ SENSOR_1 = NoSensor
    /\ SENSOR_2 = NoSensor
    /\ hist1 = <<>>
    /\ lastCall = NoCall
    /\ MainInit

\* main, lines 335-338: both globals are assigned without a suspension
CreateSensors ==
    /\ ~Exists(SENSOR_1)
    /\ SENSOR_1' = SensorInit(sensor_1_component_name, MainWindow)
    /\ SENSOR_2' = SensorInit(sensor_2_component_name, MainWindow)
    /\ lastCall' = NoCall
    /\ UNCHANGED <<hist1, mainVars>>

RecordInto1 ==
    /\ Exists(SENSOR_1)
    /\ SENSOR_1.index < MaxRecordsRep
    /\ \E v \in Readings :
         /\ SENSOR_1' = record(SENSOR_1, v).sensor
         /\ lastCall' = [NoCall EXCEPT !.op = "record", !.arg = v]
    /\ UNCHANGED <<SENSOR_2, hist1, mainVars>>

RecordInto2 ==
    /\ Exists(SENSOR_2)
    /\ SENSOR_2.index < MaxRecordsRep
    /\ \E v \in Readings :
         /\ SENSOR_2' = record(SENSOR_2, v).sensor
         /\ lastCall' = [NoCall EXCEPT !.op = "record", !.arg = v]
    /\ UNCHANGED <<SENSOR_1, hist1, mainVars>>

\* a getMaxMinReport request for sensor `name` is answered
ReportCall ==
    /\ \E name \in SensorNames :
         lastCall' = [ op |-> "report", arg |-> name, raised |-> "none",
                       result |-> create_response_payload_with_status(
                                      name, GetMaxMinReport, TRUE,
                                      SENSOR_1, SENSOR_2) ]
    /\ UNCHANGED <<SENSOR_1, SENSOR_2, hist1, mainVars>>

NextReport == CreateSensors \/ RecordInto1 \/ RecordInto2 \/ ReportCall
SpecReport == InitReport /\ [][NextReport]_vars

\* C4: a report request naming a sensor that does not exist is answered
\* with status success and the zeroed report (max = min = avg = 0,
\* startTime = endTime = now), never with a sensor's data.
C4_UnknownSensorZeroReport ==
    (lastCall.op = "report"
       /\ lastCall.arg \notin {sensor_1_component_name, sensor_2_component_name})
    => (lastCall.result.status = 200 /\ lastCall.result.payload = ZeroReport)

---------------------------------------------------------------------------
(* Spec: main() from the creation of the sensors to the return of main     *)

Init == InitReport

\* a task that has neither finished nor been cancelled
Live(task) == task.pc \notin {"idle", "raised", "failed", "cancelled"}
\* LoopRuns as it would be if a handler that never returns held the loop
LoopRunsUnlessHung ==
    /\ mainPc \in {"running", "shutdown"}
    /\ \A l \in DOMAIN lst : lst[l].pc # "hung"
\* the event loop runs tasks while main is suspended in an await
LoopRuns == mainPc \in {"running", "shutdown"}
AfterQuit == mainPc \in {"shutdown", "exited"}
Sent(kind) == IF AfterQuit THEN afterQuit \cup {kind} ELSE afterQuit

\* Future.done() of the gather future
FutureDone(fut) == fut \in {"result", "exception"}
\* gather without return_exceptions: the first child that raises sets the
\* exception of the gather future, if it is still pending
ChildRaised(fut) == IF fut = "pending" THEN "exception" ELSE fut
\* main, lines 393-394: if not listeners.done(): listeners.set_result("DONE")
SetResultIfNotDone(fut) == IF ~FutureDone(fut) THEN "result" ELSE fut
\* main, line 399: listeners.cancel() cancels the children of a gather
\* future that is not done, and does nothing to one that is done
GatherCancel(fut, tasks) ==
    IF FutureDone(fut) THEN tasks
    ELSE [l \in DOMAIN tasks |->
            IF Live(tasks[l]) THEN [tasks[l] EXCEPT !.pc = "cancelled"]
            ELSE tasks[l]]
\* main, line 402: send_telemetry_task.cancel(); the task ends at the
\* suspension point it is in, unless it has already finished
TaskCancel(task) ==
    IF Live(task) THEN [task EXCEPT !.pc = "cancelled"] ELSE task

\* StartMain as it would be if the listeners were gathered and main
\* suspended before the sensors are created
StartMainNoSensors ==
    /\ mainPc = "init"
    /\ mainPc' = "running"
    /\ listeners' = "pending"
    /\ lst' = [l \in Listeners |-> [lst[l] EXCEPT !.pc = "receive"]]
    /\ tel' = [tel EXCEPT !.pc = "start"]
    /\ UNCHANGED <<SENSOR_1, SENSOR_2, hist1, lastCall, afterQuit>>

\* main, lines 335-391: the sensors are created, the listeners gathered and
\* the telemetry task scheduled before main first suspends
StartMain ==
    /\ mainPc = "init"
    /\ mainPc' = "running"
    /\ SENSOR_1' = SensorInit(sensor_1_component_name, MainWindow)
    /\ SENSOR_2' = SensorInit(sensor_2_component_name, MainWindow)
    /\ listeners' = "pending"
    /\ lst' = [l \in Listeners |-> [lst[l] EXCEPT !.pc = "receive"]]
    /\ tel' = [tel EXCEPT !.pc = "start"]
    /\ UNCHANGED <<hist1, lastCall, afterQuit>>

\* execute_command_listener, line 187: a request for this listener's
\* command arrives
ReceiveRequest(l) ==
    /\ LoopRuns
    /\ lst[l].pc = "receive"
    /\ lst' = [lst EXCEPT ![l].pc = "handler", ![l].answered = "pending"]
    /\ UNCHANGED <<SENSOR_1, SENSOR_2, hist1, lastCall, mainPc, listeners,
                   tel, afterQuit>>

\* HandlerReturns as it would be if handling a command cleared the sensors
HandlerReturnsResets(l) ==
    /\ LoopRuns
    /\ lst[l].pc = "handler"
    /\ lst' = [lst EXCEPT
                 ![l].pc = "respond",
                 ![l].answered = "attempted",
                 ![l].response = create_response_payload_with_status(
                                     component_name(l), method_name(l),
                                     has_response_handler(l),
                                     SENSOR_1, SENSOR_2)]
    /\ SENSOR_1' = SensorInit(sensor_1_component_name, MainWindow)
    /\ SENSOR_2' = SensorInit(sensor_2_component_name, MainWindow)
    /\ afterQuit' = Sent("response")
    /\ UNCHANGED <<hist1, lastCall, mainPc, listeners, tel>>

\* lines 192-206: the handler returns, the response is built and
\* send_method_response is called
HandlerReturns(l) ==
    /\ LoopRuns
    /\ lst[l].pc = "handler"
    /\ lst' = [lst EXCEPT
                 ![l].pc = "respond",
                 ![l].answered = "attempted",
                 ![l].response = create_response_payload_with_status(
                                     component_name(l), method_name(l),
                                     has_response_handler(l),
                                     SENSOR_1, SENSOR_2)]
    /\ afterQuit' = Sent("response")
    /\ UNCHANGED <<SENSOR_1, SENSOR_2, hist1, lastCall, mainPc, listeners, tel>>

\* line 193: the awaited handler raises; nothing catches it, the coroutine
\* ends and the gather future takes the exception
HandlerRaises(l) ==
    /\ LoopRuns
    /\ lst[l].pc = "handler"
    /\ lst' = [lst EXCEPT ![l].pc = "raised", ![l].handlerFailed = TRUE]
    /\ listeners' = ChildRaised(listeners)
    /\ UNCHANGED <<SENSOR_1, SENSOR_2, hist1, lastCall, mainPc, tel, afterQuit>>

\* line 206 returns: back to the top of the loop
ResponseSent(l) ==
    /\ LoopRuns
    /\ lst[l].pc = "respond"
    /\ lst' = [lst EXCEPT ![l].pc = "receive", ![l].answered = "sent",
                          ![l].response = NoResponse]
    /\ UNCHANGED <<SENSOR_1, SENSOR_2, hist1, lastCall, mainPc, listeners,
                   tel, afterQuit>>

\* ResponseFails as it would be without the try around line 206
ResponseFailsUncaught(l) ==
    /\ LoopRuns
    /\ lst[l].pc = "respond"
    /\ lst' = [lst EXCEPT ![l].pc = "raised", ![l].answered = "failed",
                          ![l].response = NoResponse]
    /\ listeners' = ChildRaised(listeners)
    /\ UNCHANGED <<SENSOR_1, SENSOR_2, hist1, lastCall, mainPc, tel, afterQuit>>

\* lines 207-208: send_method_response raises, the except clause prints
ResponseFails(l) ==
    /\ LoopRuns
    /\ lst[l].pc = "respond"
    /\ lst' = [lst EXCEPT ![l].pc = "receive", ![l].answered = "failed",
                          ![l].response = NoResponse]
    /\ UNCHANGED <<SENSOR_1, SENSOR_2, hist1, lastCall, mainPc, listeners,
                   tel, afterQuit>>

\* execute_property_listener, lines 217-221: a patch arrives and
\* patch_twin_reported_properties is called
ReceivePatch ==
    /\ LoopRuns
    /\ lst["property"].pc = "receive"
    /\ lst' = [lst EXCEPT !["property"].pc = "patching"]
    /\ afterQuit' = Sent("property")
    /\ UNCHANGED <<SENSOR_1, SENSOR_2, hist1, lastCall, mainPc, listeners, tel>>

PatchDone ==
    /\ LoopRuns
    /\ lst["property"].pc = "patching"
    /\ lst' = [lst EXCEPT !["property"].pc = "receive"]
    /\ UNCHANGED <<SENSOR_1, SENSOR_2, hist1, lastCall, mainPc, listeners,
                   tel, afterQuit>>

\* line 221 raises: nothing catches it
PatchFails ==
    /\ LoopRuns
    /\ lst["property"].pc = "patching"
    /\ lst' = [lst EXCEPT !["property"].pc = "raised"]
    /\ listeners' = ChildRaised(listeners)
    /\ UNCHANGED <<SENSOR_1, SENSOR_2, hist1, lastCall, mainPc, tel, afterQuit>>

\* main.send_telemetry: the component each half of a cycle reports for
FirstComponent == sensor_1_component_name
\* SecondComponent as a copy of the first half of the cycle would have it
SecondComponentCopied == sensor_1_component_name
SecondComponent == sensor_2_component_name

\* Emit as it would be if the message were built before the reading is taken
EmitPrevious(task, component, value, next) ==
    [task EXCEPT !.pc = next,
                 !.events = Append(@, [component |-> component,
                                       value |-> IF Len(@) = 0 THEN Num(0)
                                                 ELSE @[Len(@)].value])]

\* send_telemetry_from_vsm_controller, lines 147-148: the message for
\* `component` is handed to device_client.send_message
Emit(task, component, value, next) ==
    [task EXCEPT !.pc = next,
                 !.events = Append(@, [component |-> component, value |-> value])]

\* number of telemetry events handed over for `component`
Count(component) ==
    Cardinality({i \in 1..Len(tel.events) : tel.events[i].component = component})

\* lines 368-374: a reading is drawn, recorded into SENSOR_1 and sent
TelemetryFirst ==
    /\ LoopRuns
    /\ tel.pc \in {"start", "sleep2"}
    /\ Len(tel.events) < MaxEvents
    /\ \E v \in Readings :
         LET r == record(SENSOR_1, v)
         IN /\ SENSOR_1' = r.sensor
            /\ tel' = IF r.raised = "none"
                      THEN Emit(tel, FirstComponent, v, "send1")
                      ELSE [tel EXCEPT !.pc = "failed"]
    /\ afterQuit' = Sent("telemetry")
    /\ UNCHANGED <<SENSOR_2, hist1, lastCall, mainPc, listeners, lst>>

\* lines 148-151: send_message returns and the task sleeps
TelemetrySent ==
    /\ LoopRuns
    /\ tel.pc \in {"send1", "send2"}
    /\ tel' = [tel EXCEPT !.pc = IF tel.pc = "send1" THEN "sleep1" ELSE "sleep2"]
    /\ UNCHANGED <<SENSOR_1, SENSOR_2, hist1, lastCall, mainPc, listeners,
                   lst, afterQuit>>

\* line 148 raises: nothing in send_telemetry catches it, the task ends
TelemetrySendFails ==
    /\ LoopRuns
    /\ tel.pc \in {"send1", "send2"}
    /\ tel' = [tel EXCEPT !.pc = "failed"]
    /\ UNCHANGED <<SENSOR_1, SENSOR_2, hist1, lastCall, mainPc, listeners,
                   lst, afterQuit>>

\* TelemetrySecond as it would be if record suspended before recomputing
\* avg: the other tasks see the new max and min with the old avg
TelemetrySecondTorn ==
    /\ LoopRuns
    /\ tel.pc = "sleep1"
    /\ Len(tel.events) < MaxEvents
    /\ \E v \in Readings :
         LET r == record(SENSOR_2, v)
         IN /\ SENSOR_2' = [r.sensor EXCEPT !.avg = SENSOR_2.avg]
            /\ tel' = Emit(tel, SecondComponent, v, "send2")
    /\ afterQuit' = Sent("telemetry")
    /\ UNCHANGED <<SENSOR_1, hist1, lastCall, mainPc, listeners, lst>>

\* lines 376-383: after the sleep a reading is drawn, recorded into
\* SENSOR_2 and sent
TelemetrySecond ==
    /\ LoopRuns
    /\ tel.pc = "sleep1"
    /\ Len(tel.events) < MaxEvents
    /\ \E v \in Readings :
         LET r == record(SENSOR_2, v)
         IN /\ SENSOR_2' = r.sensor
            /\ tel' = IF r.raised = "none"
                      THEN Emit(tel, SecondComponent, v, "send2")
                      ELSE [tel EXCEPT !.pc = "failed"]
    /\ afterQuit' = Sent("telemetry")
    /\ UNCHANGED <<SENSOR_1, hist1, lastCall, mainPc, listeners, lst>>

\* main, lines 391-405: the operator quits; main marks and cancels the
\* gather future, cancels the telemetry task and awaits shutdown()
UserQuits ==
    /\ mainPc = "running"
    /\ mainPc' = "shutdown"
    /\ listeners' = SetResultIfNotDone(listeners)
    /\ lst' = GatherCancel(SetResultIfNotDone(listeners), lst)
    /\ tel' = TaskCancel(tel)
    /\ UNCHANGED <<SENSOR_1, SENSOR_2, hist1, lastCall, afterQuit>>

\* lines 405 and 412: shutdown() returns, main returns and asyncio.run
\* cancels whatever task is left
MainReturns ==
    /\ mainPc = "shutdown"
    /\ mainPc' = "exited"
    /\ lst' = [l \in Listeners |-> TaskCancel(lst[l])]
    /\ tel' = TaskCancel(tel)
    /\ UNCHANGED <<SENSOR_1, SENSOR_2, hist1, lastCall, listeners, afterQuit>>

Next ==
    \/ StartMain
    \/ \E l \in CommandListeners :
         \/ ReceiveRequest(l)
         \/ HandlerReturns(l)
         \/ HandlerRaises(l)
         \/ ResponseSent(l)
         \/ ResponseFails(l)
    \/ ReceivePatch
    \/ PatchDone
    \/ PatchFails
    \/ TelemetryFirst
    \/ TelemetrySent
    \/ TelemetrySendFails
    \/ TelemetrySecond
    \/ UserQuits
    \/ MainReturns

Spec == Init /\ [][Next]_vars

---------------------------------------------------------------------------
(* Claims about main() *)

\* the Sensor a report listener's component names
SensorOf(l) == IF l = "report1" THEN SENSOR_1 ELSE SENSOR_2

\* C3: a getMaxMinReport request received by the sensor1 listener is
\* answered with the report of SENSOR_1, and one received by the sensor2
\* listener with the report of SENSOR_2.
C3_ReportFromNamedSensor ==
    [][\A l \in {"report1", "report2"} :
          (lst[l].pc = "handler" /\ lst'[l].pc = "respond")
          => lst'[l].response.payload = create_report(SensorOf(l))]_vars

\* C5: a command handler that raises does not stop its listener.
C5_ListenerSurvivesHandlerFailure ==
    \A l \in CommandListeners :
        lst[l].handlerFailed => lst[l].pc \in {"receive", "handler", "respond"}

\* C6: a listener awaits its next request only when the request before got
\* its response send attempt, it holds an unanswered request only while
\* handling it, and it leaves the loop only by being cancelled.
C6_OneResponsePerRequest ==
    \A l \in CommandListeners :
        /\ lst[l].pc = "receive" => lst[l].answered \in {"none", "sent", "failed"}
        /\ lst[l].pc = "handler" => lst[l].answered = "pending"
        /\ lst[l].pc = "respond" => lst[l].answered = "attempted"
        /\ lst[l].pc # "raised"

\* C7 as stated: once the telemetry task is cancelled, as many sensor1
\* events as sensor2 events have been sent.
C7_NoPartialCycle ==
    tel.pc = "cancelled" =>
        Count(sensor_1_component_name) = Count(sensor_2_component_name)

\* C7 amended: once the telemetry task is cancelled it sends nothing more,
\* and the sensor1 events sent are as many as the sensor2 events or one more.
C7_CancelStopsTelemetry ==
    /\ [](tel.pc = "cancelled" =>
            Count(sensor_1_component_name) - Count(sensor_2_component_name)
                \in {0, 1})
    /\ [][tel.pc = "cancelled" => tel' = tel]_vars

\* the telemetry task cancelled between the two halves of a cycle
C7_Witness ==
    /\ tel.pc = "cancelled"
    /\ Count(sensor_1_component_name) = Count(sensor_2_component_name) + 1

\* C8: from the quit on, no listener and no telemetry task is able to run
\* and nothing is sent to the transport.
C8_AllCancelledBeforeShutdown ==
    AfterQuit =>
        /\ \A l \in Listeners : ~Live(lst[l])
        /\ ~Live(tel)
        /\ afterQuit = {}

---------------------------------------------------------------------------
(* Further claims about one Sensor *)

\* C17: the records buffer of a Sensor of capacity C has length C, at
\* creation and after any sequence of record calls.
C17_BufferLengthIsCapacity ==
    Len(SENSOR_1.records) = SENSOR_1.moving_window

\* every reading after the first is greater than the first
LaterAllGreater(h) == \A i \in 2..Len(h) : h[i].val > h[1].val

---------------------------------------------------------------------------
(* Further claims about main() *)

\* C11: a response send that fails is confined to its request: while the
\* event loop runs, the listener is back at awaiting a request and the next
\* request can be received.
C11_ListenerSurvivesSendFailure ==
    \A l \in CommandListeners :
        (lst[l].answered = "failed" /\ LoopRuns)
        => (lst[l].pc = "receive" /\ ENABLED ReceiveRequest(l))

\* a listener whose last response send failed, awaiting its next request
C11_Witness ==
    \E l \in CommandListeners :
        lst[l].answered = "failed" /\ lst[l].pc = "receive" /\ LoopRuns

\* C12: a telemetry send that fails does not end the telemetry loop.
C12_TelemetrySurvivesSendFailure ==
    tel.pc # "failed"

\* the Sensor a telemetry event's component names
SensorNamed(component) ==
    IF component = sensor_1_component_name THEN SENSOR_1 ELSE SENSOR_2

SensorNamedNext(component) ==
    IF component = sensor_1_component_name THEN SENSOR_1' ELSE SENSOR_2'

\* C13: events alternate sensor1, sensor2, ... from sensor1 on; an event is
\* sent right after its reading was recorded into its sensor, carries that
\* sensor's current value, and follows a sleep (or the start of the task).
C13_SequentialTelemetry ==
    [][tel'.events # tel.events =>
         LET n == Len(tel'.events)
             e == tel'.events[n]
         IN /\ n = Len(tel.events) + 1
            /\ SubSeq(tel'.events, 1, n - 1) = tel.events
            /\ e.component = IF n % 2 = 1 THEN sensor_1_component_name
                             ELSE sensor_2_component_name
            /\ SensorNamedNext(e.component) # SensorNamed(e.component)
            /\ e.value = SensorNamedNext(e.component).cur
            /\ tel.pc = IF n = 1 THEN "start"
                        ELSE IF n % 2 = 1 THEN "sleep2" ELSE "sleep1"]_vars

\* a third event: sensor1 again, after sensor1 and sensor2
C13_Witness ==
    /\ Len(tel.events) = 3
    /\ tel.events[3].component = sensor_1_component_name
    /\ tel.events[3].value = SENSOR_1.cur
    /\ tel.pc = "send1"

\* the readings the telemetry task has recorded for `component`, in order
RecordedFor(component) ==
    SelectSeq(tel.events, LAMBDA e : e.component = component)

RECURSIVE AfterRecords(_, _, _)
\* the Sensor after the first k of the readings h were recorded into s
AfterRecords(s, h, k) ==
    IF k = 0 THEN s
    ELSE record(AfterRecords(s, h, k - 1), h[k].value).sensor

Triple(x) == <<x.max, x.min, x.avg>>
ReportTriple(p) == <<p.maxVMS, p.minVMS, p.avgVMS>>

\* <<max, min, avg>> of the sensor at creation and after each completed
\* record call
Snapshots(component) ==
    LET h == RecordedFor(component)
    IN {Triple(AfterRecords(SensorInit(component, MainWindow), h, k)) :
            k \in 0..Len(h)}

\* C15: the max, min and avg of a report built for a response are those a
\* sensor held at creation or after one and the same completed record call.
C15_ReportIsSnapshot ==
    \A l \in {"report1", "report2"} :
        lst[l].pc = "respond" =>
            ReportTriple(lst[l].response.payload)
                \in Snapshots(sensor_1_component_name)
                    \cup Snapshots(sensor_2_component_name)

\* a report in flight that no longer shows its sensor's latest values
C15_Witness ==
    \E l \in {"report1", "report2"} :
        /\ lst[l].pc = "respond"
        /\ ReportTriple(lst[l].response.payload) # Triple(SENSOR_2)
        /\ Len(RecordedFor(sensor_2_component_name)) >= 1

\* C16: a step of a command listener or of the property listener leaves
\* both sensors as they are.
C16_ListenersDoNotWriteSensors ==
    [][(lst' # lst /\ mainPc # "init")
         => (SENSOR_1' = SENSOR_1 /\ SENSOR_2' = SENSOR_2)]_vars

\* a report built and a property patch handled with readings recorded
C16_Witness ==
    /\ lst["report1"].pc = "respond"
    /\ lst["reboot"].answered = "sent"
    /\ lst["property"].pc = "patching"
    /\ SENSOR_1.index = 1

\* C20: whenever a listener can receive or handle a request both sensors
\* exist, and a getMaxMinReport response is built from a Sensor, never from
\* the zeroed fallback.
C20_ReportNeverZeroed ==
    /\ (\E l \in Listeners : Live(lst[l])) => (Exists(SENSOR_1) /\ Exists(SENSOR_2))
    /\ \A l \in {"report1", "report2"} :
         lst[l].pc = "respond" =>
             /\ lst[l].response.payload # ZeroReport
             /\ lst[l].response.payload.startTime = MainWindow * 8

\* a getMaxMinReport response built before the telemetry task has recorded
C20_Witness ==
    /\ lst["report1"].pc = "respond"
    /\ SENSOR_1.index = 0
    /\ SENSOR_2.index = 0

---------------------------------------------------------------------------
(* SpecHang: main() with command handlers that may never return, under the *)
(* fairness of the event loop: a task whose awaited operation can complete *)
(* is resumed, and requests and patches keep arriving.                     *)

\* line 193: the awaited handler suspends and is never resumed
HandlerHangs(l) ==
    /\ LoopRuns
    /\ lst[l].pc = "handler"
    /\ lst' = [lst EXCEPT ![l].pc = "hung"]
    /\ UNCHANGED <<SENSOR_1, SENSOR_2, hist1, lastCall, mainPc, listeners,
                   tel, afterQuit>>

\* events explored with hanging handlers
MaxHangEvents == 2

\* the telemetry steps that take a reading, within the events explored here
HangEventsLeft == Len(tel.events) < MaxHangEvents
TelemetryFirstHang == HangEventsLeft /\ TelemetryFirst
TelemetrySecondHang == HangEventsLeft /\ TelemetrySecond

\* one step of a command listener, of the property listener, of telemetry
ListenerStep(l) ==
    \/ ReceiveRequest(l)
    \/ HandlerReturns(l) \/ HandlerRaises(l) \/ HandlerHangs(l)
    \/ ResponseSent(l) \/ ResponseFails(l)
PropertyStep == ReceivePatch \/ PatchDone \/ PatchFails
TelemetryStep ==
    \/ TelemetryFirstHang \/ TelemetrySent
    \/ TelemetrySendFails \/ TelemetrySecondHang

\* Next with handlers that may hang
NextHang ==
    \/ StartMain
    \/ \E l \in CommandListeners : ListenerStep(l)
    \/ PropertyStep
    \/ TelemetryStep
    \/ UserQuits
    \/ MainReturns

\* the telemetry task is at a suspension point it can leave: a send that
\* completes, or a sleep that ends (within the events explored)
TelemetryDue ==
    /\ LoopRuns
    /\ \/ tel.pc \in {"send1", "send2"}
       \/ /\ tel.pc \in {"start", "sleep1", "sleep2"}
          /\ HangEventsLeft

\* a step of the telemetry task, told from the two states alone
TelemetryResumed ==
    /\ tel.pc \in {"start", "send1", "sleep1", "send2", "sleep2"}
    /\ tel'.pc \in {"send1", "sleep1", "send2", "sleep2", "failed"}
    /\ tel'.pc # tel.pc

\* The event loop resumes every task whose awaited operation can complete.
\* For the telemetry task weak fairness is written out: TelemetryDue is
\* ENABLED <<TelemetryStep>>_vars under the bound on events, and
\* TelemetryResumed holds of exactly the steps TelemetryStep allows.
FairLoop ==
    /\ \A l \in CommandListeners : WF_vars(ListenerStep(l))
    /\ WF_vars(PropertyStep)
    /\ []<>~TelemetryDue \/ []<><<TelemetryResumed>>_vars

SpecHang == Init /\ [][NextHang]_vars /\ FairLoop

\* some command handler never returns
SomeHung == \E l \in CommandListeners : lst[l].pc = "hung"

\* the telemetry task waits where it can go on (within the events explored)
TelemetryWaits(p) ==
    /\ tel.pc = p
    /\ p \in {"start", "sleep1", "sleep2"} => Len(tel.events) < MaxHangEvents

\* C14: while a command handler hangs, the telemetry task does not stay for
\* ever at a suspension point (within the events explored), and no other
\* listener stays for ever where it is: each still receives, handles and
\* answers.
C14_HungHandlerBlocksOnlyItself ==
    /\ \A p \in {"start", "send1", "sleep1", "send2", "sleep2"} :
         []<>~(SomeHung /\ TelemetryWaits(p))
    /\ \A m \in CommandListeners : \A p \in {"receive", "handler", "respond"} :
         []<>~(SomeHung /\ lst[m].pc = p)
    /\ \A p \in {"receive", "patching"} :
         []<>~(SomeHung /\ lst["property"].pc = p)

\* one handler hung while telemetry was sent and another request answered
C14_Witness ==
    /\ lst["reboot"].pc = "hung"
    /\ lst["report1"].answered = "sent"
    /\ lst["property"].pc = "patching"
    /\ Len(tel.events) >= 2
    /\ mainPc = "running"

====
